---- MODULE Spec2Model ----
(***************************************************************************)
(* Model of basebot/bot.py: the per-channel dispatch of mentions           *)
(* (on_message, process_message) and the token-budgeted prompt assembly    *)
(* (build_prompt_with_budget, truncate_prompt_to_budget).                  *)
(*                                                                         *)
(* Text is a sequence of characters (one-character strings).               *)
(***************************************************************************)
EXTENDS Integers, Sequences, FiniteSets, TLC

(***************************************************************************)
(* Program constants and the bounds of the model                           *)
(***************************************************************************)
GPT2_CONTEXT_WINDOW == 1024

\* values of the MAX_COMPLETION_TOKENS environment variable that are tried:
\* budgets 1024 - v of -1, 0, 1, ..., and one budget of a full window (v = 0)
MaxBudget == 7
CompletionTokenChoices == {0} \cup ((GPT2_CONTEXT_WINDOW - MaxBudget) .. (GPT2_CONTEXT_WINDOW + 1))

MaxHistory == 3

Channels == {"A", "B"}

None == "None"
Loaded == "Loaded"

(***************************************************************************)
(* Characters                                                              *)
(***************************************************************************)
SP == " "
NL == "\n"
Whitespace == {SP, NL}
Punctuation == {":", ".", "<", ">", "@", "!"}
IsWs(c) == c \in Whitespace
IsWord(c) == c \notin Whitespace /\ c \notin Punctuation

\* str.strip(): drop leading and trailing whitespace
RECURSIVE LStrip(_)
LStrip(s) ==
    IF s = <<>> THEN <<>>
    ELSE IF IsWs(Head(s)) THEN LStrip(Tail(s)) ELSE s

RECURSIVE RStrip(_)
RStrip(s) ==
    IF s = <<>> THEN <<>>
    ELSE IF IsWs(s[Len(s)]) THEN RStrip(SubSeq(s, 1, Len(s) - 1)) ELSE s

Strip(s) == RStrip(LStrip(s))

\* Python slices s[:n] and s[n:] with Python's treatment of a negative index
PyIndex(len, n) ==
    IF n < 0 THEN (IF len + n < 0 THEN 0 ELSE len + n)
    ELSE (IF n > len THEN len ELSE n)

PySliceTo(s, n) == SubSeq(s, 1, PyIndex(Len(s), n))

PySliceFrom(s, n) == SubSeq(s, PyIndex(Len(s), n) + 1, Len(s))

(***************************************************************************)
(* The tokenizer (GPT2Tokenizer): a token is the piece of text it stands   *)
(* for. The text is cut as GPT-2's splitting pattern cuts it (a space      *)
(* joins the word after it; a run of whitespace that runs into a word      *)
(* gives up its last character), and a piece is then merged two            *)
(* characters at a time where the vocabulary has the pair.                 *)
(***************************************************************************)
RECURSIVE WsRun(_)
WsRun(s) ==
    IF s = <<>> \/ ~IsWs(Head(s)) THEN 0 ELSE 1 + WsRun(Tail(s))

NextTokenLen(s) ==
    IF IsWs(s[1])
    THEN LET r == WsRun(s)
             piece == IF r = Len(s) THEN r ELSE r - 1
         IN  IF piece = 0
             THEN (IF s[1] = SP THEN 2 ELSE 1)
             ELSE (IF piece >= 2 /\ s[1] = s[2] THEN 2 ELSE 1)
    ELSE IF IsWord(s[1]) /\ Len(s) >= 2 /\ IsWord(s[2]) THEN 2
    ELSE 1

RECURSIVE Encode(_)
Encode(s) ==
    IF s = <<>> THEN <<>>
    ELSE LET n == NextTokenLen(s)
         IN  <<SubSeq(s, 1, n)>> \o Encode(SubSeq(s, n + 1, Len(s)))

RECURSIVE Decode(_)
Decode(toks) ==
    IF toks = <<>> THEN <<>> ELSE Head(toks) \o Decode(Tail(toks))

TokenCount(s) == Len(Encode(s))

(***************************************************************************)
(* String helpers of process_message                                       *)
(***************************************************************************)
StartsWith(s, pat) == Len(s) >= Len(pat) /\ SubSeq(s, 1, Len(pat)) = pat

\* str.replace(pat, ''): occurrences are removed left to right, not overlapping
RECURSIVE Remove(_, _)
Remove(s, pat) ==
    IF s = <<>> THEN <<>>
    ELSE IF StartsWith(s, pat) THEN Remove(SubSeq(s, Len(pat) + 1, Len(s)), pat)
    ELSE <<Head(s)>> \o Remove(Tail(s), pat)

BOT_ID == <<"1">>
bot_mention == <<"<", "@">> \o BOT_ID \o <<">">>
bot_mention_alt == <<"<", "@", "!">> \o BOT_ID \o <<">">>
CONTINUE == <<".", "c", "o", "n", "t", "i", "n", "u", "e">>

(***************************************************************************)
(* State                                                                   *)
(***************************************************************************)
VARIABLES
    MAX_COMPLETION_TOKENS,  \* the configured value (bot.py line 26)
    tokenizer,              \* global, None until the loader thread sets it
    model,                  \* global, None until the loader thread sets it
    loader,                 \* position of on_ready / _load_gpt2_model_sync
    processing_channels,    \* set of channel ids
    message_queues,         \* dict: channel id -> list of message ids
    inbox,                  \* message id -> channel and backlog position of each accepted mention
    tasks,                  \* the on_message coroutines that are inside process_message
    closing,                \* the client is shutting down
    started,                \* channel -> message ids in the order process_message was entered
    ended,                  \* ids of the messages whose process_message has ended
    last_outcome,           \* channel -> how its process_message ended in the step just taken
    completions,            \* message id -> number of times on_message went on after it
    ignored,                \* the step just taken was an on_message that returned at once
    call                    \* one call of a prompt function: inputs and result

vars == <<MAX_COMPLETION_TOKENS, tokenizer, model, loader, processing_channels,
          message_queues, inbox, tasks, closing, started, ended, last_outcome,
          completions, ignored, call>>

\* no process_message ended in the step just taken
NoOutcome == [c \in Channels |-> None]

(***************************************************************************)
(* Prompt assembly                                                         *)
(***************************************************************************)
Budget == GPT2_CONTEXT_WINDOW - MAX_COMPLETION_TOKENS

\* f"{msg.author.display_name}: {msg.content}"
format_message(msg) == msg.author \o <<":", SP>> \o msg.content

\* "\n".join(lines), followed by "\n" when it is not empty
RECURSIVE JoinLines(_)
JoinLines(lines) ==
    IF lines = <<>> THEN <<>>
    ELSE IF Len(lines) = 1 THEN Head(lines)
    ELSE Head(lines) \o <<NL>> \o JoinLines(Tail(lines))

HistoryText(lines) ==
    LET history_text == JoinLines(lines)
    IN  IF history_text # <<>> THEN history_text \o <<NL>> ELSE history_text

\* HistoryWalk with continue in the place of break
RECURSIVE HistoryWalk_Continue(_, _, _, _, _)
HistoryWalk_Continue(messages, i, history_lines, total_history_tokens, remaining_budget) ==
    IF i = 0 THEN history_lines
    ELSE LET msg == messages[i]
             msg_line == format_message(msg)
             msg_token_count == Len(Encode(msg_line \o <<NL>>))
         IN  IF \/ Strip(msg.content) = <<>>
                \/ total_history_tokens + msg_token_count > remaining_budget
             THEN HistoryWalk_Continue(messages, i - 1, history_lines,
                                       total_history_tokens, remaining_budget)
             ELSE HistoryWalk_Continue(messages, i - 1, <<msg_line>> \o history_lines,
                                       total_history_tokens + msg_token_count,
                                       remaining_budget)

\* the loop over reversed(messages): i is the position of msg, from the newest down
RECURSIVE HistoryWalk(_, _, _, _, _)
HistoryWalk(messages, i, history_lines, total_history_tokens, remaining_budget) ==
    IF i = 0 THEN history_lines
    ELSE LET msg == messages[i]
             msg_line == format_message(msg)
             msg_token_count == Len(Encode(msg_line \o <<NL>>))
         IN  IF Strip(msg.content) = <<>>
             THEN HistoryWalk(messages, i - 1, history_lines, total_history_tokens,
                              remaining_budget)
             ELSE IF total_history_tokens + msg_token_count > remaining_budget
             THEN history_lines
             ELSE HistoryWalk(messages, i - 1, <<msg_line>> \o history_lines,
                              total_history_tokens + msg_token_count, remaining_budget)

build_prompt_with_budget(messages, prefix) ==
    IF tokenizer = None THEN prefix
    ELSE LET budget == Budget
             prefix_tokens == Encode(prefix)
         IN  IF Len(prefix_tokens) >= budget
             THEN Decode(PySliceTo(prefix_tokens, budget))
             ELSE LET remaining_budget == budget - Len(prefix_tokens)
                      history_lines == HistoryWalk(messages, Len(messages), <<>>, 0,
                                                   remaining_budget)
                  IN  HistoryText(history_lines) \o prefix

truncate_prompt_to_budget(prompt) ==
    IF tokenizer = None THEN prompt
    ELSE LET budget == Budget
             input_tokens == Encode(prompt)
         IN  IF Len(input_tokens) <= budget THEN prompt
             ELSE Decode(PySliceFrom(input_tokens, -budget))

(***************************************************************************)
(* The loader thread started by on_ready                                   *)
(***************************************************************************)
\* on_ready: the load is handed to a worker thread
on_ready ==
    /\ loader = "not_ready"
    /\ loader' = "load_tokenizer"
    /\ last_outcome' = NoOutcome
    /\ ignored' = FALSE
    /\ UNCHANGED <<MAX_COMPLETION_TOKENS, tokenizer, model, processing_channels,
                   message_queues, inbox, tasks, closing, started, ended, completions, call>>

\* tokenizer = GPT2Tokenizer.from_pretrained(model_name)
LoadTokenizer ==
    /\ loader = "load_tokenizer"
    /\ tokenizer' = Loaded
    /\ loader' = "load_model"
    /\ last_outcome' = NoOutcome
    /\ ignored' = FALSE
    /\ UNCHANGED <<MAX_COMPLETION_TOKENS, model, processing_channels, message_queues,
                   inbox, tasks, closing, started, ended, completions,
                   call>>

\* model = GPT2LMHeadModel.from_pretrained(model_name)
LoadModel ==
    /\ loader = "load_model"
    /\ model' = Loaded
    /\ loader' = "loaded"
    /\ last_outcome' = NoOutcome
    /\ ignored' = FALSE
    /\ UNCHANGED <<MAX_COMPLETION_TOKENS, tokenizer, processing_channels,
                   message_queues, inbox, tasks, closing, started, ended, completions, call>>

(***************************************************************************)
(* Calls of the two prompt functions on inputs drawn from bounded sets     *)
(***************************************************************************)
AUTHOR == <<"a">>
Contents == { <<>>, <<SP>>, <<"b">>, <<"b", "b", "b">>, <<"b", NL>> }
HistoryMessages == [author : {AUTHOR}, content : Contents]
Histories == UNION { [1..n -> HistoryMessages] : n \in 0..MaxHistory }
Texts == { <<>>, <<"b">>, <<"b", SP, "b">>, <<"b", SP, "b", SP, "b", SP, "b">> }

NoCall == [fn |-> "none", messages |-> <<>>, text |-> <<>>, tok |-> None, out |-> <<>>]

CallBuild ==
    /\ call.fn = "none"
    /\ \E messages \in Histories, prefix \in Texts :
          call' = [fn |-> "build", messages |-> messages, text |-> prefix,
                   tok |-> tokenizer,
                   out |-> build_prompt_with_budget(messages, prefix)]
    /\ last_outcome' = NoOutcome
    /\ ignored' = FALSE
    /\ UNCHANGED <<MAX_COMPLETION_TOKENS, tokenizer, model, loader,
                   processing_channels, message_queues, inbox, tasks, closing,
                   started, ended, completions>>

CallTruncate ==
    /\ call.fn = "none"
    /\ \E prompt \in Texts :
          call' = [fn |-> "truncate", messages |-> <<>>, text |-> prompt,
                   tok |-> tokenizer,
                   out |-> truncate_prompt_to_budget(prompt)]
    /\ last_outcome' = NoOutcome
    /\ ignored' = FALSE
    /\ UNCHANGED <<MAX_COMPLETION_TOKENS, tokenizer, model, loader,
                   processing_channels, message_queues, inbox, tasks, closing,
                   started, ended, completions>>

InitWith(completion_tokens) ==
    /\ MAX_COMPLETION_TOKENS \in completion_tokens
    /\ tokenizer = None
    /\ model = None
    /\ loader = "not_ready"
    /\ processing_channels = {}
    /\ message_queues = <<>>
    /\ inbox = <<>>
    /\ tasks = {}
    /\ closing = FALSE
    /\ started = [c \in Channels |-> <<>>]
    /\ ended = {}
    /\ last_outcome = NoOutcome
    /\ completions = <<>>
    /\ ignored = FALSE
    /\ call = NoCall

(***************************************************************************)
(* Dispatch: on_message and process_message                                *)
(***************************************************************************)
MaxMsgs == 3
MAX_HISTORY_MESSAGES == 100

\* MAX_COMPLETION_TOKENS values tried with the dispatch: they leave a budget of
\* one token and of none
DispatchTokenChoices == {GPT2_CONTEXT_WINDOW - 1, GPT2_CONTEXT_WINDOW}

\* texts of the mentions that arrive
RawTexts == { bot_mention \o <<SP, "b", SP, "b">>,
              bot_mention_alt \o <<SP>> \o CONTINUE \o <<SP, "b">> }

\* what a channel's history may hold, oldest first
ChannelHistories == { <<>>,
                      << [author |-> AUTHOR, content |-> <<"b">>],
                         [author |-> AUTHOR, content |-> <<"b", "b", "b">>] >> }

Reverse(s) == [i \in 1..Len(s) |-> s[Len(s) + 1 - i]]

QueueOf(c) == IF c \in DOMAIN message_queues THEN message_queues[c] ELSE <<>>

\* process_message up to its first await: the mention is stripped and the mode chosen
BeginProcess_NoTrim(message) ==
    LET content == Strip(Remove(Remove(message.content, bot_mention), bot_mention_alt))
        continuation == StartsWith(content, CONTINUE)
    IN  [chan |-> message.channel, msg |-> message.id, pc |-> "typing",
         mode |-> IF continuation THEN "continue" ELSE "direct",
         text |-> IF continuation
                  THEN SubSeq(content, Len(CONTINUE) + 1, Len(content))
                  ELSE content,
         prompt |-> <<>>, completion |-> None, error |-> None, cancelling |-> FALSE,
         engine |-> None, generations |-> 0]

BeginProcess(message) ==
    LET content == Strip(Remove(Remove(message.content, bot_mention), bot_mention_alt))
        continuation == StartsWith(content, CONTINUE)
    IN  [chan |-> message.channel, msg |-> message.id, pc |-> "typing",
         mode |-> IF continuation THEN "continue" ELSE "direct",
         text |-> IF continuation
                  THEN Strip(SubSeq(content, Len(CONTINUE) + 1, Len(content)))
                  ELSE content,
         prompt |-> <<>>, completion |-> None, error |-> None, cancelling |-> FALSE,
         engine |-> None, generations |-> 0]

\* if channel_id in processing_channels
IsProcessing_Never(c) == FALSE

IsProcessing_AnyChannel(c) == processing_channels # {}

IsProcessing(c) == c \in processing_channels

\* message_queues[channel_id].append(message)
Enqueue_AtFront(queue, message) == <<message>> \o queue

Enqueue(queue, message) == Append(queue, message)

\* if message.author == client.user: return
\* if client.user not in message.mentions: return
Ignores_OnlyUnmentioned(own, mentioned) == ~mentioned

Ignores(own, mentioned) == own \/ ~mentioned

\* on_message for one incoming message
on_message(c, raw, own, mentioned) ==
    /\ ~closing
    /\ ignored' = (own \/ ~mentioned)
    /\ IF Ignores(own, mentioned)
       THEN UNCHANGED <<processing_channels, message_queues, inbox, tasks, started>>
       ELSE /\ Len(inbox) < MaxMsgs
            /\ LET message == [id |-> Len(inbox) + 1, channel |-> c, content |-> raw]
               IN  IF IsProcessing(c)
                   THEN /\ message_queues' =
                             [k \in DOMAIN message_queues \cup {c} |->
                                 IF k = c THEN Enqueue(QueueOf(c), message)
                                 ELSE message_queues[k]]
                        /\ inbox' = Append(inbox, [channel |-> c,
                                                   queued |-> Len(QueueOf(c)) + 1])
                        /\ UNCHANGED <<processing_channels, tasks, started>>
                   ELSE /\ processing_channels' = processing_channels \cup {c}
                        /\ inbox' = Append(inbox, [channel |-> c, queued |-> 0])
                        /\ tasks' = tasks \cup {BeginProcess(message)}
                        /\ started' = [started EXCEPT ![c] = Append(@, message.id)]
                        /\ UNCHANGED message_queues
    /\ last_outcome' = NoOutcome
    /\ UNCHANGED <<MAX_COMPLETION_TOKENS, tokenizer, model, loader, closing, ended, completions, call>>

\* the messages the gateway delivers: mentions by users, the bot's own
\* messages, and messages that do not mention the bot
Events == [raw : RawTexts, own : {FALSE}, mentioned : {TRUE}]
              \cup [raw : {bot_mention}, own : {TRUE}, mentioned : BOOLEAN]
              \cup [raw : {<<"b">>}, own : {FALSE}, mentioned : {FALSE}]

Submit ==
    \E c \in Channels, e \in Events : on_message(c, e.raw, e.own, e.mentioned)

Runnable(t) == t \in tasks /\ ~t.cancelling

DropKey(f, k) == [x \in DOMAIN f \ {k} |-> f[x]]

\* next_message = message_queues[channel_id].pop(0)
Pop_Keep(queue) == [item |-> Head(queue), rest |-> queue]

Pop_Last(queue) == [item |-> queue[Len(queue)], rest |-> SubSeq(queue, 1, Len(queue) - 1)]

Pop(queue) == [item |-> Head(queue), rest |-> Tail(queue)]

\* the finally block of on_message
Finally(t) ==
    /\ processing_channels' = processing_channels \ {t.chan}
    /\ message_queues' = IF t.chan \in DOMAIN message_queues /\ message_queues[t.chan] = <<>>
                         THEN DropKey(message_queues, t.chan)
                         ELSE message_queues
    /\ tasks' = tasks \ {t}

\* process_message has returned to on_message: the while loop takes the next
\* queued message, or the finally block runs
AfterProcess(t, outcome) ==
    /\ ended' = ended \cup {t.msg}
    /\ last_outcome' = [NoOutcome EXCEPT ![t.chan] = outcome]
    /\ ignored' = FALSE
    /\ completions' = completions @@ (t.msg :> 1)
    /\ IF t.chan \in DOMAIN message_queues /\ message_queues[t.chan] # <<>>
       THEN LET popped == Pop(message_queues[t.chan])
                next_message == popped.item
            IN  /\ message_queues' = [message_queues EXCEPT ![t.chan] = popped.rest]
                /\ tasks' = (tasks \ {t}) \cup {BeginProcess(next_message)}
                /\ started' = [started EXCEPT ![t.chan] = Append(@, next_message.id)]
                /\ UNCHANGED processing_channels
       ELSE /\ Finally(t)
            /\ UNCHANGED started

\* an exception that process_message does not catch reaches on_message's finally
Escapes(t, outcome) ==
    /\ ended' = ended \cup {t.msg}
    /\ last_outcome' = [NoOutcome EXCEPT ![t.chan] = outcome]
    /\ ignored' = FALSE
    /\ Finally(t)
    /\ UNCHANGED <<started, completions>>

\* async with message.channel.typing(), then the synchronous code that follows
TypingOk(t) ==
    /\ Runnable(t) /\ t.pc = "typing"
    /\ tasks' = (tasks \ {t}) \cup
                    { IF t.mode = "continue" THEN [t EXCEPT !.pc = "fetch"]
                      ELSE [t EXCEPT !.pc = "generate",
                                     !.prompt = truncate_prompt_to_budget(t.text)] }
    /\ last_outcome' = NoOutcome
    /\ ignored' = FALSE
    /\ UNCHANGED <<MAX_COMPLETION_TOKENS, tokenizer, model, loader, processing_channels,
                   message_queues, inbox, closing, started, ended, completions, call>>

\* entering the typing context raises: the except block is entered
TypingFail(t) ==
    /\ Runnable(t) /\ t.pc = "typing"
    /\ tasks' = (tasks \ {t}) \cup {[t EXCEPT !.pc = "react", !.error = "other_error"]}
    /\ last_outcome' = NoOutcome
    /\ ignored' = FALSE
    /\ UNCHANGED <<MAX_COMPLETION_TOKENS, tokenizer, model, loader, processing_channels,
                   message_queues, inbox, closing, started, ended, completions, call>>

\* fetch_history: the messages arrive newest first; the list is reversed only
\* when the iteration ends without an exception
fetch_history(channel_messages, max_messages, received, failed) ==
    LET newest_first == Reverse(channel_messages)
        limited == SubSeq(newest_first, 1,
                          IF Len(newest_first) > max_messages THEN max_messages
                          ELSE Len(newest_first))
    IN  IF failed THEN SubSeq(limited, 1, received) ELSE Reverse(limited)

\* history = await fetch_history(...); prompt = build_prompt_with_budget(history, prefix)
Fetch(t) ==
    /\ Runnable(t) /\ t.pc = "fetch"
    /\ \E channel_messages \in ChannelHistories, failed \in BOOLEAN :
       \E received \in 0..Len(channel_messages) :
          LET history == fetch_history(channel_messages, MAX_HISTORY_MESSAGES,
                                       received, failed)
          IN  tasks' = (tasks \ {t}) \cup
                          {[t EXCEPT !.pc = "generate",
                                     !.prompt = build_prompt_with_budget(history, t.text)]}
    /\ last_outcome' = NoOutcome
    /\ ignored' = FALSE
    /\ UNCHANGED <<MAX_COMPLETION_TOKENS, tokenizer, model, loader, processing_channels,
                   message_queues, inbox, closing, started, ended, completions, call>>

\* what model.generate and the decoding do once the model is loaded
EngineOutcomes == {"text", "empty", "raises"}

\* _generate_completion_sync: the text it returns
generate_completion(outcome) ==
    IF model = None \/ tokenizer = None THEN "(Model not loaded)"
    ELSE IF outcome = "raises" THEN "(Error)"
    ELSE IF outcome = "empty" THEN "(no completion generated)"
    ELSE "text"

\* whether _generate_completion_sync ran the engine, and how that ended
EngineRun(outcome) ==
    IF model = None \/ tokenizer = None THEN "not_run"
    ELSE IF outcome = "raises" THEN "raised" ELSE "returned"

\* completion = await generate_completion(prompt, ...); the prompt is not used again
Generate_Raises(t) ==
    /\ Runnable(t) /\ t.pc = "generate"
    /\ \E outcome \in EngineOutcomes :
          tasks' = (tasks \ {t}) \cup
                      { IF EngineRun(outcome) = "raised"
                        THEN [t EXCEPT !.pc = "react", !.prompt = <<>>,
                                       !.error = "other_error",
                                       !.engine = "raised", !.generations = @ + 1]
                        ELSE [t EXCEPT !.pc = "reply", !.prompt = <<>>,
                                       !.completion = generate_completion(outcome),
                                       !.engine = EngineRun(outcome),
                                       !.generations = @ + 1] }
    /\ last_outcome' = NoOutcome
    /\ ignored' = FALSE
    /\ UNCHANGED <<MAX_COMPLETION_TOKENS, tokenizer, model, loader, processing_channels,
                   message_queues, inbox, closing, started, ended, completions, call>>

Generate_Retry(t) ==
    /\ Runnable(t) /\ t.pc = "generate"
    /\ \E outcome \in EngineOutcomes :
          tasks' = (tasks \ {t}) \cup
                      { IF EngineRun(outcome) = "raised" /\ t.generations = 0
                        THEN [t EXCEPT !.generations = @ + 1]
                        ELSE [t EXCEPT !.pc = "reply", !.prompt = <<>>,
                                       !.completion = generate_completion(outcome),
                                       !.engine = EngineRun(outcome),
                                       !.generations = @ + 1] }
    /\ last_outcome' = NoOutcome
    /\ ignored' = FALSE
    /\ UNCHANGED <<MAX_COMPLETION_TOKENS, tokenizer, model, loader, processing_channels,
                   message_queues, inbox, closing, started, ended, completions, call>>

Generate(t) ==
    /\ Runnable(t) /\ t.pc = "generate"
    /\ \E outcome \in EngineOutcomes :
          tasks' = (tasks \ {t}) \cup
                      {[t EXCEPT !.pc = "reply", !.prompt = <<>>,
                                 !.completion = generate_completion(outcome),
                                 !.engine = EngineRun(outcome),
                                 !.generations = @ + 1]}
    /\ last_outcome' = NoOutcome
    /\ ignored' = FALSE
    /\ UNCHANGED <<MAX_COMPLETION_TOKENS, tokenizer, model, loader, processing_channels,
                   message_queues, inbox, closing, started, ended, completions, call>>

\* await message.reply(completion) returns
ReplyOk(t) ==
    /\ Runnable(t) /\ t.pc = "reply"
    /\ AfterProcess(t, IF t.completion = "(Error)" THEN "generation_error" ELSE "success")
    /\ UNCHANGED <<MAX_COMPLETION_TOKENS, tokenizer, model, loader, inbox, closing, call>>

ReplyFail_Uncaught(t) ==
    /\ Runnable(t) /\ t.pc = "reply"
    /\ Escapes(t, "delivery_error")
    /\ UNCHANGED <<MAX_COMPLETION_TOKENS, tokenizer, model, loader, inbox, closing, call>>

\* await message.reply(completion) raises: the except block is entered
ReplyFail(t) ==
    /\ Runnable(t) /\ t.pc = "reply"
    /\ tasks' = (tasks \ {t}) \cup {[t EXCEPT !.pc = "react", !.error = "delivery_error"]}
    /\ last_outcome' = NoOutcome
    /\ ignored' = FALSE
    /\ UNCHANGED <<MAX_COMPLETION_TOKENS, tokenizer, model, loader, processing_channels,
                   message_queues, inbox, closing, started, ended, completions, call>>

\* await message.add_reaction(...) returns or raises; a failure is swallowed
React_Propagates(t) ==
    /\ Runnable(t) /\ t.pc = "react"
    /\ \/ AfterProcess(t, t.error)
       \/ Escapes(t, t.error)
    /\ UNCHANGED <<MAX_COMPLETION_TOKENS, tokenizer, model, loader, inbox, closing, call>>

React(t) ==
    /\ Runnable(t) /\ t.pc = "react"
    /\ AfterProcess(t, t.error)
    /\ UNCHANGED <<MAX_COMPLETION_TOKENS, tokenizer, model, loader, inbox, closing, call>>

\* the client shuts down: asyncio cancels every task that is still running
Shutdown ==
    /\ ~closing
    /\ closing' = TRUE
    /\ tasks' = {[t EXCEPT !.cancelling = TRUE] : t \in tasks}
    /\ last_outcome' = NoOutcome
    /\ ignored' = FALSE
    /\ UNCHANGED <<MAX_COMPLETION_TOKENS, tokenizer, model, loader, processing_channels,
                   message_queues, inbox, started, ended, completions, call>>

\* CancelledError is raised at the await the task is suspended in. It is not an
\* Exception, so only the bare except around add_reaction catches it.
Cancelled(t) ==
    /\ t \in tasks /\ t.cancelling
    /\ IF t.pc = "react"
       THEN AfterProcess(t, t.error)
       ELSE Escapes(t, "cancelled")
    /\ UNCHANGED <<MAX_COMPLETION_TOKENS, tokenizer, model, loader, inbox, closing, call>>

Init == InitWith(DispatchTokenChoices)

Next ==
    \/ on_ready
    \/ LoadTokenizer
    \/ LoadModel
    \/ Submit
    \/ \E t \in tasks : TypingOk(t)
    \/ \E t \in tasks : TypingFail(t)
    \/ \E t \in tasks : Fetch(t)
    \/ \E t \in tasks : Generate(t)
    \/ \E t \in tasks : ReplyOk(t)
    \/ \E t \in tasks : ReplyFail(t)
    \/ \E t \in tasks : React(t)
    \/ Shutdown
    \/ \E t \in tasks : Cancelled(t)

Spec == Init /\ [][Next]_vars

(***************************************************************************)
(* Calls of the pure steps of process_message on inputs from bounded sets  *)
(***************************************************************************)
\* history = await fetch_history(message.channel, MAX_HISTORY_MESSAGES)
\* prompt = build_prompt_with_budget(history, prefix)
CallFetch ==
    /\ call.fn = "none"
    /\ \E channel_messages \in Histories, prefix \in Texts, failed \in BOOLEAN :
       \E received \in (IF failed THEN 0 ELSE Len(channel_messages))..Len(channel_messages) :
          LET history == fetch_history(channel_messages, MAX_HISTORY_MESSAGES,
                                       received, failed)
          IN  call' = [fn |-> "fetch", channel_messages |-> channel_messages,
                       failed |-> failed, messages |-> history, text |-> prefix,
                       tok |-> tokenizer,
                       out |-> build_prompt_with_budget(history, prefix)]
    /\ last_outcome' = NoOutcome
    /\ ignored' = FALSE
    /\ UNCHANGED <<MAX_COMPLETION_TOKENS, tokenizer, model, loader,
                   processing_channels, message_queues, inbox, tasks, closing,
                   started, ended, completions>>

\* raw texts of mentions: up to MaxPieces pieces, among them both forms of the
\* bot's mention, the .continue token whole and with a mention inside, and blanks
MaxPieces == 4
Pieces == { bot_mention, bot_mention_alt, <<SP>>, CONTINUE,
            <<".", "c", "o", "n", "t">> \o bot_mention \o <<"i", "n", "u", "e">>,
            <<"b">> }

RECURSIVE Concat(_)
Concat(pieces) == IF pieces = <<>> THEN <<>> ELSE Head(pieces) \o Concat(Tail(pieces))

RawContents == { Concat(pieces) : pieces \in UNION { [1..n -> Pieces] : n \in 0..MaxPieces } }

\* lines 268-279 of process_message: mention removal and mode detection
CallMode ==
    /\ call.fn = "none"
    /\ \E raw \in RawContents :
          LET t == BeginProcess([id |-> 0, channel |-> "A", content |-> raw])
          IN  call' = [fn |-> "mode", raw |-> raw, mode |-> t.mode, text |-> t.text,
                       tok |-> tokenizer, messages |-> <<>>, out |-> <<>>]
    /\ last_outcome' = NoOutcome
    /\ ignored' = FALSE
    /\ UNCHANGED <<MAX_COMPLETION_TOKENS, tokenizer, model, loader,
                   processing_channels, message_queues, inbox, tasks, closing,
                   started, ended, completions>>

NextPrompt ==
    \/ CallMode
    \/ on_ready
    \/ LoadTokenizer
    \/ LoadModel
    \/ CallBuild
    \/ CallTruncate
    \/ CallFetch

InitPrompt == InitWith(CompletionTokenChoices)

SpecPrompt == InitPrompt /\ [][NextPrompt]_vars

(***************************************************************************)
(* Properties of prompt assembly (under SpecPrompt)                        *)
(***************************************************************************)
FirstTokens(toks, n) == SubSeq(toks, 1, IF n > Len(toks) THEN Len(toks) ELSE n)
LastTokens(toks, n) == SubSeq(toks, IF n > Len(toks) THEN 1 ELSE Len(toks) - n + 1, Len(toks))

IsBlank(msg) == \A i \in 1..Len(msg.content) : IsWs(msg.content[i])
NonBlank(messages) == SelectSeq(messages, LAMBDA m : ~IsBlank(m))
Line(msg) == msg.author \o <<":", SP>> \o msg.content \o <<NL>>

\* token count of the formatted lines of the k newest messages of ms
RECURSIVE NewestTokens(_, _)
NewestTokens(ms, k) ==
    IF k = 0 THEN 0
    ELSE TokenCount(Line(ms[Len(ms)])) + NewestTokens(SubSeq(ms, 1, Len(ms) - 1), k - 1)

\* the length of the longest run of newest messages that fits in room tokens
LongestFit(ms, room) ==
    CHOOSE k \in 0..Len(ms) :
        /\ NewestTokens(ms, k) <= room
        /\ \A j \in (k + 1)..Len(ms) : NewestTokens(ms, j) > room

RECURSIVE Lines(_)
Lines(ms) == IF ms = <<>> THEN <<>> ELSE Line(Head(ms)) \o Lines(Tail(ms))

SelectedHistory(messages, suffix) ==
    LET ms == NonBlank(messages)
        k == LongestFit(ms, Budget - TokenCount(suffix))
    IN  SubSeq(ms, Len(ms) - k + 1, Len(ms))

\* C3 (as claimed): every prompt returned by build_prompt_with_budget or
\* truncate_prompt_to_budget counts at most TokenBudget tokens.
C3_BudgetBound ==
    call.fn \in {"build", "truncate"} => TokenCount(call.out) <= Budget

\* C5: with the tokenizer loaded and a suffix below the budget, the prompt of
\* build_prompt_with_budget is the lines of the longest run of newest non-blank
\* messages whose token counts sum to at most TokenBudget - tokens(suffix),
\* oldest first, followed by the suffix in full.
C5_HistorySelection ==
    (call.fn = "build" /\ call.tok = Loaded /\ TokenCount(call.text) < Budget)
        => call.out = Lines(SelectedHistory(call.messages, call.text)) \o call.text

\* C5 witness: a blank newest message was passed over, a run of newer messages
\* was retained and an older non-blank message was left out.
C5_Witness ==
    /\ call.fn = "build" /\ call.tok = Loaded /\ TokenCount(call.text) < Budget
    /\ call.messages # <<>> /\ IsBlank(call.messages[Len(call.messages)])
    /\ LET kept == Len(SelectedHistory(call.messages, call.text))
       IN  0 < kept /\ kept < Len(NonBlank(call.messages))

\* C6 (as claimed): with the tokenizer loaded, truncate_prompt_to_budget returns
\* the text unchanged when it counts at most TokenBudget tokens and otherwise the
\* decode of exactly the last TokenBudget tokens, for every configured budget.
C6_DirectTruncation ==
    (call.fn = "truncate" /\ call.tok = Loaded)
        => call.out = IF TokenCount(call.text) <= Budget THEN call.text
                      ELSE Decode(LastTokens(Encode(call.text), Budget))

\* C7 (as claimed): with the tokenizer loaded and a suffix of TokenBudget tokens
\* or more, build_prompt_with_budget returns the decode of the first TokenBudget
\* tokens of the suffix and nothing of the history.
C7_OversizedSuffix ==
    (call.fn = "build" /\ call.tok = Loaded /\ TokenCount(call.text) >= Budget)
        => call.out = Decode(FirstTokens(Encode(call.text), Budget))

\* C11 (as claimed): when the fetch of the history fails, before any message
\* was received or after some were, the history handed to prompt assembly is
\* empty and the prompt is the one assembled from the suffix alone.
C11_FetchFailureEmptyHistory ==
    (call.fn = "fetch" /\ call.failed)
        => /\ call.messages = <<>>
           /\ call.out = build_prompt_with_budget(<<>>, call.text)

\* the k newest messages of a channel, oldest first
Newest(channel_messages, k) ==
    SubSeq(channel_messages, Len(channel_messages) - k + 1, Len(channel_messages))

\* C17 (as claimed): in every outcome of the fetch, the sequence handed to
\* build_prompt_with_budget is a run of the channel's newest messages in
\* chronological order, oldest first.
C17_HistoryOrder ==
    call.fn = "fetch"
        => call.messages = Newest(call.channel_messages, Len(call.messages))

\* the raw text without the characters of the bot's mention tokens
InMention(raw, i) ==
    \E m \in {bot_mention, bot_mention_alt} :
        \E j \in 1..i : /\ i < j + Len(m)
                        /\ j + Len(m) - 1 <= Len(raw)
                        /\ SubSeq(raw, j, j + Len(m) - 1) = m

Unmentioned(raw) ==
    LET keep == SelectSeq([i \in 1..Len(raw) |-> i], LAMBDA i : ~InMention(raw, i))
    IN  [k \in 1..Len(keep) |-> raw[keep[k]]]

\* s from its first to its last character that is not whitespace
Trimmed(s) ==
    LET solid == {i \in 1..Len(s) : ~IsWs(s[i])}
    IN  IF solid = {} THEN <<>>
        ELSE SubSeq(s, CHOOSE i \in solid : \A j \in solid : i <= j,
                       CHOOSE i \in solid : \A j \in solid : j <= i)

\* C15: with both forms of the bot's mention removed from the raw text and the
\* result trimmed, continuation mode is chosen exactly when the stripped text
\* starts with .continue, with the trimmed remainder as the suffix; otherwise
\* direct mode is chosen with the whole stripped text as the instruction.
C15_ModeDetection ==
    call.fn = "mode"
        => LET stripped == Trimmed(Unmentioned(call.raw))
               n == Len(CONTINUE)
           IN  IF Len(stripped) >= n /\ SubSeq(stripped, 1, n) = CONTINUE
               THEN /\ call.mode = "continue"
                    /\ call.text = Trimmed(SubSeq(stripped, n + 1, Len(stripped)))
               ELSE /\ call.mode = "direct"
                    /\ call.text = stripped

\* C15 witness: a mention in the <@!ID> form followed by .continue, blanks and
\* a suffix: continuation mode with the blanks trimmed off the suffix.
C15_Witness ==
    /\ call.fn = "mode" /\ call.mode = "continue" /\ call.text = <<"b">>
    /\ call.raw = bot_mention_alt \o CONTINUE \o <<SP, "b">>

(***************************************************************************)
(* Properties of the dispatch (under Spec)                                 *)
(***************************************************************************)
InFlight(c) == {t \in tasks : t.chan = c}
QueueIds(c) == [i \in 1..Len(QueueOf(c)) |-> QueueOf(c)[i].id]
Ids == [i \in 1..Len(inbox) |-> i]
SubmittedTo(c) == SelectSeq(Ids, LAMBDA i : inbox[i].channel = c)
StartedIds == UNION {{started[c][i] : i \in 1..Len(started[c])} : c \in Channels}

\* C1: at most one request of a channel is inside process_message, and every
\* request of the channel that began before the newest one has already ended.
C1_SingleFlight ==
    \A c \in Channels :
        /\ Cardinality(InFlight(c)) <= 1
        /\ \A i \in 1..(Len(started[c]) - 1) : started[c][i] \in ended

\* C1 witness: a second request of a channel is in flight after the first ended,
\* while a third waits in the backlog.
C1_Witness ==
    \E c \in Channels :
        /\ Len(started[c]) = 2 /\ started[c][1] \in ended
        /\ \E t \in tasks : t.msg = started[c][2]
        /\ QueueOf(c) # <<>>

\* C2: the requests of a channel begin processing in the order they were
\* submitted: those begun, followed by the backlog, are the submissions in order.
C2_Fifo ==
    \A c \in Channels : SubmittedTo(c) = started[c] \o QueueIds(c)

\* C2 witness: a request that was submitted as the second entry of a backlog,
\* behind a request in flight, has begun processing.
C2_Witness ==
    \E i \in 1..Len(inbox) : inbox[i].queued = 2 /\ i \in StartedIds

QueueOfNext(c) == IF c \in DOMAIN message_queues' THEN message_queues'[c] ELSE <<>>
QueueIdsNext(c) == [i \in 1..Len(QueueOfNext(c)) |-> QueueOfNext(c)[i].id]

\* the completion step of channel c, as a step from the current state
CompletionStep(c) ==
    IF QueueOf(c) # <<>>
    THEN /\ started'[c] = Append(started[c], Head(QueueOf(c)).id)
         /\ c \in DOMAIN message_queues' /\ QueueOfNext(c) = Tail(QueueOf(c))
         /\ c \in processing_channels'
         /\ \E t \in tasks' : t.chan = c /\ t.msg = Head(QueueOf(c)).id
    ELSE /\ c \notin processing_channels'
         /\ c \notin DOMAIN message_queues'
         /\ started'[c] = started[c]

NamedEndings == {"success", "generation_error", "delivery_error"}

\* C4: the step in which a request ends in success, in a generation error or in
\* a delivery error is the completion step of its channel, run once for the
\* request; and a channel marked as processing always has a request in flight.
C4_NoWedge ==
    /\ [](\A c \in Channels : c \in processing_channels => InFlight(c) # {})
    /\ [][\A id \in ended' \ ended :
            last_outcome'[inbox[id].channel] \in NamedEndings
                => /\ CompletionStep(inbox[id].channel)
                   /\ id \notin DOMAIN completions
                   /\ id \in DOMAIN completions' /\ completions'[id] = 1]_vars

\* C4 witness: a request ended in a delivery error and the next request of the
\* backlog was started by its completion step.
C4_Witness ==
    \E c \in Channels :
        /\ last_outcome[c] = "delivery_error"
        /\ Len(started[c]) >= 2
        /\ \E t \in tasks : t.msg = started[c][Len(started[c])] /\ t.pc = "typing"
        /\ \A i \in 1..(Len(started[c]) - 1) : completions[started[c][i]] = 1

\* C8 (as claimed): a channel has a key in message_queues only while it is in
\* processing_channels.
C8_QueueOnlyWhileProcessing ==
    DOMAIN message_queues \subseteq processing_channels

\* C9: a mention that on_message accepts is started when its own channel is not
\* marked and is buffered when it is, whatever the other channels are doing; and
\* a step changes the mark and the backlog of no channel but the one of the
\* request that took it.
C9_ChannelIndependence ==
    [][/\ Len(inbox') > Len(inbox) =>
             LET id == Len(inbox')
                 a == inbox'[id].channel
             IN  IF a \in processing_channels
                 THEN QueueIdsNext(a) = Append(QueueIds(a), id) /\ UNCHANGED tasks
                 ELSE /\ started'[a] = Append(started[a], id)
                      /\ \E t \in tasks' : t.msg = id /\ t.chan = a
       /\ \A b \in Channels :
             (\/ (b \in processing_channels') # (b \in processing_channels)
              \/ QueueOfNext(b) # QueueOf(b)
              \/ (b \in DOMAIN message_queues') # (b \in DOMAIN message_queues))
                 => \/ /\ Len(inbox') > Len(inbox)
                       /\ inbox'[Len(inbox')].channel = b
                    \/ \E t \in tasks : t.chan = b /\ t \notin tasks']_vars

\* C9 witness: a mention of one channel was started while the other channel had
\* a request in flight and a backlog.
C9_Witness ==
    \E a \in Channels, b \in Channels :
        /\ a # b
        /\ QueueOf(b) # <<>> /\ InFlight(b) # {}
        /\ \E t \in tasks : t.chan = a /\ t.msg > QueueOf(b)[1].id

\* C10 (as claimed): whenever a request is being processed, 0 < TokenBudget and
\* TokenBudget < context_window.
C10_PositiveBudget ==
    tasks # {} => (0 < Budget /\ Budget < GPT2_CONTEXT_WINDOW)

\* the requests whose process_message ends in the step
Ending == {t \in tasks : t.msg \in ended' \ ended}

\* on_message went on after the request of task t: process_message returned
Returned(t) ==
    /\ t.msg \notin DOMAIN completions
    /\ t.msg \in DOMAIN completions' /\ completions'[t.msg] = 1
    /\ CompletionStep(t.chan)

\* C12: a request whose generation engine raised goes on to the reply with the
\* literal error text as its completion; when that reply is delivered the
\* request ends, process_message returns and the channel's queue advances to
\* the next buffered request or to idle.
C12_GenerationErrorVisible ==
    /\ [](\A t \in tasks : t.engine = "raised" =>
              /\ t.completion = "(Error)"
              /\ (t.pc = "reply" \/ (t.pc = "react" /\ t.error = "delivery_error")))
    /\ [][\A t \in Ending :
            (t.engine = "raised" /\ t.pc = "reply" /\ ~t.cancelling)
                => last_outcome'[t.chan] = "generation_error" /\ Returned(t)]_vars

\* C12 witness: the reply of a request whose engine raised was delivered and
\* the next request of the backlog was started.
C12_Witness ==
    \E c \in Channels :
        /\ last_outcome[c] = "generation_error"
        /\ Len(started[c]) >= 2
        /\ \E t \in tasks : t.msg = started[c][Len(started[c])] /\ t.pc = "typing"

\* C13: a request whose reply could not be delivered is at the fallback
\* reaction; however the reaction ends (delivered, failed or interrupted),
\* process_message returns and on_message goes on; and a reply that is not
\* interrupted never ends the request with an error that reaches on_message.
C13_ReplyFailureFallback ==
    /\ [](\A t \in tasks : t.error = "delivery_error" => t.pc = "react")
    /\ [][\A t \in Ending :
            /\ (t.pc = "react" /\ t.error = "delivery_error")
                   => last_outcome'[t.chan] = "delivery_error" /\ Returned(t)
            /\ (t.pc = "reply" /\ ~t.cancelling) => Returned(t)]_vars

\* C13 witness: a request ended after a failed reply and its fallback, and its
\* channel went idle with process_message having returned.
C13_Witness ==
    \E c \in Channels :
        /\ last_outcome[c] = "delivery_error"
        /\ c \notin processing_channels /\ c \notin DOMAIN message_queues
        /\ started[c] # <<>>
        /\ completions[started[c][Len(started[c])]] = 1

\* C14 (as claimed): every request whose processing ends without having been
\* cancelled has attempted generation exactly once.
C14_ExactlyOnce ==
    [][\A t \in Ending : ~t.cancelling => t.generations = 1]_vars

\* C14 (amended): no request attempts generation more than once, and a request
\* that reaches the reply (one that ends in success, in a generation error or
\* in a delivery error) has attempted it exactly once.
C14_NoRetry ==
    /\ [](\A t \in tasks :
              /\ t.generations <= 1
              /\ (t.pc = "reply") => (t.generations = 1)
              /\ (t.pc \in {"typing", "fetch", "generate"}) => (t.generations = 0))
    /\ [][\A t \in Ending :
            last_outcome'[t.chan] \in NamedEndings => t.generations = 1]_vars

\* C14 witness: a request whose generation failed has ended, after one attempt,
\* and is not in flight again.
C14_Witness ==
    \E c \in Channels :
        /\ last_outcome[c] = "generation_error"
        /\ \A t \in tasks : t.chan = c => t.msg \notin ended

\* C16 (as claimed): a request is never left in a backlog with no task that
\* drains its channel.
C16_NoStrandedRequest ==
    \A c \in Channels : QueueOf(c) # <<>> => InFlight(c) # {}

\* C18 (as claimed): whenever the engine is run for a request, the prompt it
\* receives counts at most TokenBudget tokens.
C18_EngineWithinBudget ==
    [][\A t \in tasks : \A u \in tasks' :
          (t.msg = u.msg /\ t.pc = "generate" /\ u.pc = "reply" /\ u.engine = "returned")
              => TokenCount(t.prompt) <= Budget]_vars

Range(s) == {s[i] : i \in 1..Len(s)}
NoDuplicates(s) == \A i, j \in 1..Len(s) : s[i] = s[j] => i = j

\* C19: no request begins processing twice, in its channel or in another; no
\* request is twice in a backlog; and a request that has begun processing (in
\* flight or ended) is in no backlog.
C19_AtMostOnce ==
    /\ \A c \in Channels : NoDuplicates(started[c]) /\ NoDuplicates(QueueIds(c))
    /\ \A c, d \in Channels :
          /\ Range(QueueIds(c)) \cap Range(started[d]) = {}
          /\ (c # d) => (/\ Range(started[c]) \cap Range(started[d]) = {}
                         /\ Range(QueueIds(c)) \cap Range(QueueIds(d)) = {})
    /\ \A t \in tasks : t.msg \in Range(started[t.chan]) /\ t.msg \notin ended
    /\ \A t, u \in tasks : t.msg = u.msg => t = u

\* C19 witness: a request that was taken from a backlog has ended and the
\* request buffered behind it is in flight.
C19_Witness ==
    \E c \in Channels :
        /\ Len(started[c]) = 3
        /\ inbox[started[c][2]].queued > 0 /\ started[c][2] \in ended
        /\ \E t \in tasks : t.msg = started[c][3]

\* C20: an incoming message written by the bot itself, or one that does not
\* mention the bot, starts no processing and leaves processing_channels and
\* message_queues (and the accepted mentions) as they were.
C20_IgnoredEvents ==
    [][ignored' => /\ processing_channels' = processing_channels
                   /\ message_queues' = message_queues
                   /\ tasks' = tasks
                   /\ started' = started
                   /\ inbox' = inbox]_vars

\* C20 witness: an event was ignored while one channel was processing with a
\* backlog and the other was idle.
C20_Witness ==
    /\ ignored
    /\ \E c \in Channels : c \in processing_channels /\ QueueOf(c) # <<>>
    /\ \E c \in Channels : c \notin processing_channels

====
